---- MODULE Spec2Model ----
(***************************************************************************)
(* Model of the coroutine message bus of src/1/corobus.c.                  *)
(*                                                                         *)
(* Tasks are cooperatively scheduled coroutines: a task runs from the call *)
(* of a bus operation (or from its resumption inside one) up to the point  *)
(* where the operation returns or parks in wakeup_queue_suspend_this, and  *)
(* that stretch of code is one atomic action.  Between two such stretches  *)
(* any task that is idle or has been woken may be the next one to run.     *)
(*                                                                         *)
(* Channel objects live in a heap addressed by malloc addresses; a slot of *)
(* the bus holds an address or 0 (NULL).  free() followed by malloc() may  *)
(* hand out the same address again, so open picks any unused address.      *)
(* Handles are 0-based as in C: handle h names channels[h + 1].            *)
(***************************************************************************)
EXTENDS Integers, Sequences, FiniteSets, TLC

\* ---- bounds of the model ----
NumTasks == 3
MaxSlots == 2
NumAddrs == 2
MaxCap == 2
MaxVal == 2
MaxBatch == 2
\* number of operation calls explored in one run of the program
MaxCalls == 5
\* longest message queue explored: capacity plus one message of overflow
MaxData == MaxCap + 1

Tasks == 1..NumTasks
Addrs == 1..NumAddrs
Caps == 1..MaxCap
Values == 1..MaxVal
Handles == (0 - 1)..(MaxSlots - 1)
Counts == 1..MaxBatch

\* unsigned is 32 bits wide: a value is kept as its two 16-bit halves
HalfMod == 65536

\* (a - b) modulo 2^32, as <<high half, low half>>
UnsignedSub(a, b) ==
    <<(HalfMod + ((a - b) \div HalfMod)) % HalfMod, (a - b) % HalfMod>>

\* a test for no room that never finds the channel full
UnsignedNeverZero(u) == FALSE

UnsignedIsZero(u) == u[1] = 0 /\ u[2] = 0

\* n < u, for an n below 2^31
UnsignedLess(n, u) ==
    \/ n \div HalfMod < u[1]
    \/ (n \div HalfMod = u[1] /\ n % HalfMod < u[2])

\* a to_send that ignores the room
UnsignedFirst(n, u) == n

\* (n < u) ? n : u, for an n below 2^31; the result is at most n
UnsignedMin(n, u) == IF UnsignedLess(n, u) THEN n ELSE u[1] * HalfMod + u[2]

\* enum coro_bus_error_code
CORO_BUS_ERR_NONE == "NONE"
CORO_BUS_ERR_NO_CHANNEL == "NO_CHANNEL"
CORO_BUS_ERR_WOULD_BLOCK == "WOULD_BLOCK"

VARIABLES
    channels,      \* bus->channels: sequence of addresses, 0 is NULL
    heap,          \* address -> struct coro_bus_channel (or a free block)
    global_error,  \* the process-wide last error
    task,          \* per task: where it is parked and its saved locals
    woken,         \* per task: coro_wakeup was called since it suspended
    stale,         \* per task: slot (1-based) whose channel was closed
                   \*           while the task was parked on it, else 0
    ev,            \* what the last step did (operation, outcome)
    crashed,       \* the process dereferenced a wild pointer
    calls          \* number of operation calls made so far

vars == <<channels, heap, global_error, task, woken, stale, ev, crashed, calls>>

\* ---- data_vector ----
data_vector_append_many(vector, data) == vector \o data

data_vector_append(vector, data) == data_vector_append_many(vector, <<data>>)

\* result: the popped messages and what stays in the vector
data_vector_pop_last_many(vector, count) ==
    [data |-> SubSeq(vector, Len(vector) - count + 1, Len(vector)),
     rest |-> SubSeq(vector, 1, Len(vector) - count)]

data_vector_pop_first_many(vector, count) ==
    [data |-> SubSeq(vector, 1, count),
     rest |-> SubSeq(vector, count + 1, Len(vector))]

\* hands out the head message and leaves it in the vector
data_vector_peek_first(vector) ==
    [data |-> SubSeq(vector, 1, 1), rest |-> vector]

data_vector_pop_first(vector) == data_vector_pop_first_many(vector, 1)

\* ---- scheduler interface (libcoro) ----
\* coro_wakeup: a suspended coroutine becomes runnable
coro_wakeup(w, c) == [w EXCEPT ![c] = TRUE]

\* ---- wakeup_queue ----
\* a wake-up call that wakes nobody
wakeup_queue_wakeup_none(queue, w) == w

wakeup_queue_wakeup_last(queue, w) ==
    IF queue = <<>> THEN w ELSE coro_wakeup(w, queue[Len(queue)])

wakeup_queue_wakeup_first(queue, w) ==
    IF queue = <<>> THEN w ELSE coro_wakeup(w, Head(queue))

\* rlist_del_entry of the entry of task t, wherever it is linked
rlist_del_entry(hp, t) ==
    [a \in Addrs |->
        [hp[a] EXCEPT !.send_queue = SelectSeq(@, LAMBDA x : x # t),
                      !.recv_queue = SelectSeq(@, LAMBDA x : x # t)]]

\* an entry of a receiver linked in the queue of the senders
AddRecvWaiterAsSender(hp, a, t) == [hp EXCEPT ![a].send_queue = Append(@, t)]

\* rlist_add_tail_entry of the entry of task t
AddSendWaiter(hp, a, t) == [hp EXCEPT ![a].send_queue = Append(@, t)]
AddRecvWaiter(hp, a, t) == [hp EXCEPT ![a].recv_queue = Append(@, t)]

\* ---- channel and bus ----
FreeBlock == [used |-> FALSE, size_limit |-> 0, data |-> <<>>,
              send_queue |-> <<>>, recv_queue |-> <<>>]

NewChannel(size_limit) ==
    [used |-> TRUE, size_limit |-> size_limit, data |-> <<>>,
     send_queue |-> <<>>, recv_queue |-> <<>>]

channel_count == Len(channels)

\* the handle check of send, try_send and the batch operations
ValidHandle(h) == h >= 0 /\ h < channel_count /\ channels[h + 1] # 0

OpenSlots == {i \in 1..channel_count : channels[i] # 0}

HasRoomOrExact(chan) == Len(chan.data) <= chan.size_limit

HasRoom(chan) == Len(chan.data) < chan.size_limit

\* ---- per-task control state ----
Idle == [pc |-> "idle", channel |-> 0, chan |-> 0, data |-> <<>>,
         capacity |-> 0, i |-> 0]

Parked(op, h, a, data, capacity, i) ==
    [pc |-> op, channel |-> h, chan |-> a, data |-> data,
     capacity |-> capacity, i |-> i]

\* Task t makes the next call.  Coroutines that are outside any call are
\* interchangeable, so the call is made by the one with the lowest number.
IsIdle(t) ==
    /\ ~crashed
    /\ task[t].pc = "idle"
    /\ \A u \in 1..(t - 1) : task[u].pc # "idle"
    /\ calls < MaxCalls

\* counts the calls: a step that resumes a parked call is not a new call
Account(t, e) == calls' = IF e.resumed THEN calls ELSE calls + 1

IsWoken(t, op) == ~crashed /\ task[t].pc = op /\ woken[t]

\* ---- record of the last step ----
\* op: the operation; h: its handle (-1 for the broadcasts); arg: the values
\* it was given (for a batch receive: the capacity of the caller's buffer,
\* for open: the capacity of the channel),
\* kept unless the call failed; kind: "ret", "park" or
\* "crash"; ret: the value returned; vals: the messages handed to the
\* caller; resumed: the step continued a parked call; stale: the stale mark
\* of the task when it resumed; oob: a slot outside the array was read
Event(t, op, h, arg, kind, ret, vals, resumed, st, oob) ==
    [op |-> op, h |-> h,
     arg |-> IF kind = "ret" /\ ret < 0 THEN <<>> ELSE arg, kind |-> kind,
     ret |-> ret, vals |-> vals, resumed |-> resumed, stale |-> st,
     oob |-> oob]

NoEvent == Event(0, "none", 0, <<>>, "ret", 0, <<>>, FALSE, 0, FALSE)

\* the operation returns to the task: every return statement
Return(t, hp, w, err, e) ==
    /\ heap' = hp
    /\ woken' = [w EXCEPT ![t] = FALSE]
    /\ task' = [task EXCEPT ![t] = Idle]
    /\ stale' = [stale EXCEPT ![t] = 0]
    /\ global_error' = err
    /\ ev' = e
    /\ Account(t, e)
    /\ UNCHANGED <<channels, crashed>>

\* the task links its entry (already in hp) and calls coro_suspend
wakeup_queue_suspend_this(t, hp, w, err, loc, e) ==
    /\ heap' = hp
    /\ woken' = [w EXCEPT ![t] = FALSE]
    /\ task' = [task EXCEPT ![t] = loc]
    /\ global_error' = err
    /\ ev' = e
    /\ Account(t, e)
    /\ UNCHANGED <<channels, stale, crashed>>

Init ==
    /\ channels = <<>>
    /\ heap = [a \in Addrs |-> FreeBlock]
    /\ global_error = CORO_BUS_ERR_NONE
    /\ task = [t \in Tasks |-> Idle]
    /\ woken = [t \in Tasks |-> FALSE]
    /\ stale = [t \in Tasks |-> 0]
    /\ ev = NoEvent
    /\ crashed = FALSE
    /\ calls = 0

\* ---- coro_bus_channel_open ----
\* a scan for a free slot that starts at the end of the slot array
LastFreeSlot ==
    IF \E i \in 1..channel_count : channels[i] = 0
    THEN CHOOSE i \in 1..channel_count :
            channels[i] = 0 /\ \A j \in (i + 1)..channel_count : channels[j] # 0
    ELSE 0

\* lines 165-170: the first NULL slot (1-based), 0 when there is none
FirstFreeSlot ==
    IF \E i \in 1..channel_count : channels[i] = 0
    THEN CHOOSE i \in 1..channel_count :
            channels[i] = 0 /\ \A j \in 1..(i - 1) : channels[j] # 0
    ELSE 0

\* malloc of the channel object fails: -1, last error untouched
OpenMallocFails(t, size_limit) ==
    /\ IsIdle(t)
    /\ ev' = Event(t, "open", 0 - 1, <<>>, "ret", 0 - 1, <<>>, FALSE, 0, FALSE)
    /\ Account(t, ev')
    /\ UNCHANGED <<channels, heap, global_error, task, woken, stale, crashed>>

\* no free slot and realloc of the slot array fails
OpenReallocFails(t, size_limit) ==
    /\ IsIdle(t)
    /\ FirstFreeSlot = 0
    /\ global_error' = CORO_BUS_ERR_NO_CHANNEL
    /\ ev' = Event(t, "open", 0 - 1, <<>>, "ret", 0 - 1, <<>>, FALSE, 0, FALSE)
    /\ Account(t, ev')
    /\ UNCHANGED <<channels, heap, task, woken, stale, crashed>>

Open(t, size_limit) ==
    /\ IsIdle(t)
    /\ \E a \in Addrs :
        /\ ~heap[a].used
        /\ heap' = [heap EXCEPT ![a] = NewChannel(size_limit)]
        /\ IF FirstFreeSlot # 0
           THEN /\ channels' = [channels EXCEPT ![FirstFreeSlot] = a]
                /\ ev' = Event(t, "open", FirstFreeSlot - 1, <<size_limit>>, "ret",
                               FirstFreeSlot - 1, <<>>, FALSE, 0, FALSE)
           ELSE /\ channel_count < MaxSlots
                /\ channels' = Append(channels, a)
                /\ ev' = Event(t, "open", channel_count, <<size_limit>>, "ret",
                               channel_count, <<>>, FALSE, 0, FALSE)
    /\ Account(t, ev')
    /\ UNCHANGED <<global_error, task, woken, stale, crashed>>

\* ---- coro_bus_channel_close ----
\* a close that wakes every task, wherever it is parked
WakeEverybody(queue, w) == [u \in Tasks |-> TRUE]

RECURSIVE WakeAll(_, _)
WakeAll(queue, w) ==
    IF queue = <<>> THEN w ELSE WakeAll(Tail(queue), coro_wakeup(w, Head(queue)))

InSeq(x, s) == \E k \in 1..Len(s) : s[k] = x

Close(t, h) ==
    /\ IsIdle(t)
    /\ IF ~ValidHandle(h)
       THEN UNCHANGED <<channels, heap, global_error, woken, stale>>
       ELSE LET a == channels[h + 1]
                chan == heap[a]
            IN  /\ woken' = WakeAll(chan.send_queue, WakeAll(chan.recv_queue, woken))
                /\ global_error' =
                      IF chan.recv_queue # <<>> \/ chan.send_queue # <<>>
                      THEN CORO_BUS_ERR_NO_CHANNEL ELSE global_error
                /\ stale' = [u \in Tasks |->
                      IF InSeq(u, chan.recv_queue) \/ InSeq(u, chan.send_queue)
                      THEN h + 1 ELSE stale[u]]
                /\ heap' = [heap EXCEPT ![a] = FreeBlock]
                /\ channels' = [channels EXCEPT ![h + 1] = 0]
    /\ ev' = Event(t, "close", h, <<>>, "ret", 0, <<>>, FALSE, 0, FALSE)
    /\ Account(t, ev')
    /\ UNCHANGED <<task, crashed>>

\* ---- coro_bus_send ----
\* the body of the for (;;) loop, entered with heap hp
SendLoop(t, h, data, hp, resumed, st) ==
    IF ~ValidHandle(h)
    THEN Return(t, hp, woken, CORO_BUS_ERR_NO_CHANNEL,
                Event(t, "send", h, <<data>>, "ret", 0 - 1, <<>>, resumed, st, FALSE))
    ELSE LET a == channels[h + 1]
             chan == hp[a]
         IN  IF HasRoom(chan)
             THEN LET hp1 == [hp EXCEPT ![a].data = data_vector_append(@, data)]
                      w1 == wakeup_queue_wakeup_first(chan.recv_queue, woken)
                      w2 == wakeup_queue_wakeup_first(chan.send_queue, w1)
                  IN  Return(t, hp1, w2, global_error,
                             Event(t, "send", h, <<data>>, "ret", 0, <<>>, resumed, st, FALSE))
             ELSE wakeup_queue_suspend_this(t, AddSendWaiter(hp, a, t), woken,
                      global_error, Parked("send", h, a, <<data>>, 0, 0),
                      Event(t, "send", h, <<data>>, "park", 0, <<>>, resumed, st, FALSE))

Send(t, h, data) ==
    /\ IsIdle(t)
    /\ SendLoop(t, h, data, heap, FALSE, 0)

\* coro_suspend returned: unlink the entry, compare the slot with chan
ResumeSend(t) ==
    /\ IsWoken(t, "send")
    /\ LET hp == rlist_del_entry(heap, t)
           h == task[t].channel
           data == task[t].data[1]
       IN  IF channels[h + 1] # task[t].chan
           THEN Return(t, hp, woken, CORO_BUS_ERR_NO_CHANNEL,
                       Event(t, "send", h, <<data>>, "ret", 0 - 1, <<>>, TRUE, stale[t], FALSE))
           ELSE SendLoop(t, h, data, hp, TRUE, stale[t])

\* ---- coro_bus_try_send ----
TrySend(t, h, data) ==
    /\ IsIdle(t)
    /\ IF ~ValidHandle(h)
       THEN Return(t, heap, woken, CORO_BUS_ERR_NO_CHANNEL,
                   Event(t, "try_send", h, <<data>>, "ret", 0 - 1, <<>>, FALSE, 0, FALSE))
       ELSE LET a == channels[h + 1]
                chan == heap[a]
            IN  IF ~HasRoom(chan)
                THEN Return(t, heap, woken, CORO_BUS_ERR_WOULD_BLOCK,
                            Event(t, "try_send", h, <<data>>, "ret", 0 - 1, <<>>, FALSE, 0, FALSE))
                ELSE Return(t, [heap EXCEPT ![a].data = data_vector_append(@, data)],
                            wakeup_queue_wakeup_first(chan.recv_queue, woken),
                            global_error,
                            Event(t, "try_send", h, <<data>>, "ret", 0, <<>>, FALSE, 0, FALSE))

\* ---- coro_bus_recv and coro_bus_try_recv ----
\* Both test only channel_count == 0 and the slot: a handle outside
\* 0..channel_count-1 on a non-empty bus reads past the slot array.
OutOfBounds(h) == channel_count # 0 /\ (h < 0 \/ h >= channel_count)

RecvNoChannel(h) == channel_count = 0 \/ (~OutOfBounds(h) /\ channels[h + 1] = 0)

\* the slot read past the array happened to be NULL
RecvWild(t, op, h) ==
    /\ IsIdle(t)
    /\ OutOfBounds(h)
    /\ Return(t, heap, woken, CORO_BUS_ERR_NO_CHANNEL,
              Event(t, op, h, <<>>, "ret", 0 - 1, <<>>, FALSE, 0, TRUE))

\* the slot read past the array was not NULL and is dereferenced
RecvCrash(t, op, h) ==
    /\ IsIdle(t)
    /\ OutOfBounds(h)
    /\ crashed' = TRUE
    /\ ev' = Event(t, op, h, <<>>, "crash", 0, <<>>, FALSE, 0, TRUE)
    /\ Account(t, ev')
    /\ UNCHANGED <<channels, heap, global_error, task, woken, stale>>

\* a receive that gives up on an empty channel instead of waiting
RecvLoopNoWait(t, h, hp, resumed, st) ==
    LET a == channels[h + 1]
        chan == hp[a]
    IN  IF Len(chan.data) = 0
        THEN Return(t, hp, woken, CORO_BUS_ERR_WOULD_BLOCK,
                    Event(t, "recv", h, <<>>, "ret", 0 - 1, <<>>, resumed, st, FALSE))
        ELSE LET p == data_vector_pop_first(chan.data)
             IN  Return(t, [hp EXCEPT ![a].data = p.rest],
                        wakeup_queue_wakeup_first(chan.send_queue, woken),
                        global_error,
                        Event(t, "recv", h, <<>>, "ret", 0, p.data, resumed, st, FALSE))

\* the while (chan->data.size == 0) loop and what follows it
RecvLoop(t, h, hp, resumed, st) ==
    LET a == channels[h + 1]
        chan == hp[a]
    IN  IF Len(chan.data) = 0
        THEN wakeup_queue_suspend_this(t, AddRecvWaiter(hp, a, t), woken,
                 global_error, Parked("recv", h, a, <<>>, 0, 0),
                 Event(t, "recv", h, <<>>, "park", 0, <<>>, resumed, st, FALSE))
        ELSE LET p == data_vector_pop_first(chan.data)
             IN  Return(t, [hp EXCEPT ![a].data = p.rest],
                        wakeup_queue_wakeup_first(chan.send_queue, woken),
                        global_error,
                        Event(t, "recv", h, <<>>, "ret", 0, p.data, resumed, st, FALSE))

Recv(t, h) ==
    /\ IsIdle(t)
    /\ ~OutOfBounds(h)
    /\ IF RecvNoChannel(h)
       THEN Return(t, heap, woken, CORO_BUS_ERR_NO_CHANNEL,
                   Event(t, "recv", h, <<>>, "ret", 0 - 1, <<>>, FALSE, 0, FALSE))
       ELSE RecvLoop(t, h, heap, FALSE, 0)

ResumeRecv(t) ==
    /\ IsWoken(t, "recv")
    /\ LET hp == rlist_del_entry(heap, t)
           h == task[t].channel
       IN  IF channels[h + 1] # task[t].chan
           THEN Return(t, hp, woken, CORO_BUS_ERR_NO_CHANNEL,
                       Event(t, "recv", h, <<>>, "ret", 0 - 1, <<>>, TRUE, stale[t], FALSE))
           ELSE RecvLoop(t, h, hp, TRUE, stale[t])

TryRecv(t, h) ==
    /\ IsIdle(t)
    /\ ~OutOfBounds(h)
    /\ IF RecvNoChannel(h)
       THEN Return(t, heap, woken, CORO_BUS_ERR_NO_CHANNEL,
                   Event(t, "try_recv", h, <<>>, "ret", 0 - 1, <<>>, FALSE, 0, FALSE))
       ELSE LET a == channels[h + 1]
                chan == heap[a]
            IN  IF Len(chan.data) = 0
                THEN Return(t, heap, woken, CORO_BUS_ERR_WOULD_BLOCK,
                            Event(t, "try_recv", h, <<>>, "ret", 0 - 1, <<>>, FALSE, 0, FALSE))
                ELSE LET p == data_vector_pop_first(chan.data)
                     IN  Return(t, [heap EXCEPT ![a].data = p.rest],
                                wakeup_queue_wakeup_first(chan.send_queue, woken),
                                global_error,
                                Event(t, "try_recv", h, <<>>, "ret", 0, p.data, FALSE, 0, FALSE))

\* ---- coro_bus_broadcast ----
\* the test made of every open channel by the scan and by the park loop
BroadcastBlocked(chan) ==
    Len(chan.data) >= chan.size_limit /\ chan.recv_queue = <<>>

\* lines 359-365: append to the channels of slots i.. and wake a receiver
RECURSIVE BroadcastAppend(_, _, _, _, _, _)
BroadcastAppend(i, last, chs, hp, w, data) ==
    IF i > last
    THEN [heap |-> hp, woken |-> w]
    ELSE IF chs[i] = 0
         THEN BroadcastAppend(i + 1, last, chs, hp, w, data)
         ELSE BroadcastAppend(i + 1, last, chs,
                  [hp EXCEPT ![chs[i]].data = data_vector_append(@, data)],
                  wakeup_queue_wakeup_first(hp[chs[i]].recv_queue, w), data)

\* first slot after slot i whose channel blocks the broadcast, else 0
NextBlocked(i, chs, hp) ==
    LET B == {j \in (i + 1)..Len(chs) : chs[j] # 0 /\ BroadcastBlocked(hp[chs[j]])}
    IN  IF B = {} THEN 0 ELSE CHOOSE j \in B : \A k \in B : j <= k

\* a pass that delivers to the channels in front of the first blocked one
coro_bus_broadcast_pass_eager(chs, hp, w, data) ==
    LET at == NextBlocked(0, chs, hp)
        last == IF at = 0 THEN Len(chs) ELSE at - 1
        r == BroadcastAppend(1, last, chs, hp, w, data)
    IN  [ready |-> at = 0, at |-> at, heap |-> r.heap, woken |-> r.woken]

\* one pass of the while (true) loop over a bus with an open channel:
\* commit to every channel, or name the slot to park on
coro_bus_broadcast_pass(chs, hp, w, data) ==
    LET at == NextBlocked(0, chs, hp)
    IN  IF at = 0
        THEN LET r == BroadcastAppend(1, Len(chs), chs, hp, w, data)
             IN  [ready |-> TRUE, at |-> 0, heap |-> r.heap, woken |-> r.woken]
        ELSE [ready |-> FALSE, at |-> at, heap |-> hp, woken |-> w]

\* no message queue grows past the longest one explored
WithinData(hp) == \A a \in Addrs : Len(hp[a].data) <= MaxData

\* a broadcast loop without the test for an open channel
BroadcastLoopNoTest(t, data, hp, resumed, st) ==
    LET r == coro_bus_broadcast_pass(channels, hp, woken, data)
    IN  IF r.ready
        THEN /\ WithinData(r.heap)
             /\ Return(t, r.heap, r.woken, global_error,
                       Event(t, "broadcast", 0 - 1, <<data>>, "ret", 0, <<>>, resumed, st, FALSE))
        ELSE wakeup_queue_suspend_this(t,
                 AddSendWaiter(r.heap, channels[r.at], t), r.woken, global_error,
                 Parked("broadcast", 0 - 1, channels[r.at], <<data>>, 0, r.at),
                 Event(t, "broadcast", 0 - 1, <<data>>, "park", 0, <<>>, resumed, st, FALSE))

\* lines 326-367 and the first suspension of the park loop
BroadcastLoop(t, data, hp, resumed, st) ==
    IF OpenSlots = {}
    THEN Return(t, hp, woken, CORO_BUS_ERR_NO_CHANNEL,
                Event(t, "broadcast", 0 - 1, <<data>>, "ret", 0 - 1, <<>>, resumed, st, FALSE))
    ELSE LET r == coro_bus_broadcast_pass(channels, hp, woken, data)
         IN  IF r.ready
             THEN /\ WithinData(r.heap)
                  /\ Return(t, r.heap, r.woken, global_error,
                            Event(t, "broadcast", 0 - 1, <<data>>, "ret", 0, <<>>, resumed, st, FALSE))
             ELSE wakeup_queue_suspend_this(t,
                      AddSendWaiter(r.heap, channels[r.at], t), r.woken, global_error,
                      Parked("broadcast", 0 - 1, channels[r.at], <<data>>, 0, r.at),
                      Event(t, "broadcast", 0 - 1, <<data>>, "park", 0, <<>>, resumed, st, FALSE))

Broadcast(t, data) ==
    /\ IsIdle(t)
    /\ BroadcastLoop(t, data, heap, FALSE, 0)

\* coro_suspend returned inside the park loop (lines 370-378): the loop
\* goes on with the next slot, and after the last slot the scan restarts.
\* The first pass of the park loop always parks, so coro_yield (line 381)
\* is never reached.
ResumeBroadcast(t) ==
    /\ IsWoken(t, "broadcast")
    /\ LET hp == rlist_del_entry(heap, t)
           data == task[t].data[1]
           at == NextBlocked(task[t].i, channels, hp)
       IN  IF at # 0
           THEN wakeup_queue_suspend_this(t,
                    AddSendWaiter(hp, channels[at], t), woken, global_error,
                    Parked("broadcast", 0 - 1, channels[at], <<data>>, 0, at),
                    Event(t, "broadcast", 0 - 1, <<data>>, "park", 0, <<>>, TRUE, stale[t], FALSE))
           ELSE BroadcastLoop(t, data, hp, TRUE, stale[t])

\* ---- coro_bus_try_broadcast ----
TryBroadcastFirstFull(chs, hp) ==
    \E i \in 1..Len(chs) :
        /\ chs[i] # 0
        /\ \A j \in 1..(i - 1) : chs[j] = 0
        /\ Len(hp[chs[i]].data) >= hp[chs[i]].size_limit

\* any_full of lines 410-418
TryBroadcastAnyFull(chs, hp) ==
    \E i \in 1..Len(chs) :
        chs[i] # 0 /\ Len(hp[chs[i]].data) >= hp[chs[i]].size_limit

TryBroadcast(t, data) ==
    /\ IsIdle(t)
    /\ IF OpenSlots = {}
       THEN Return(t, heap, woken, CORO_BUS_ERR_NO_CHANNEL,
                   Event(t, "try_broadcast", 0 - 1, <<data>>, "ret", 0 - 1, <<>>, FALSE, 0, FALSE))
       ELSE IF TryBroadcastAnyFull(channels, heap)
            THEN Return(t, heap, woken, CORO_BUS_ERR_WOULD_BLOCK,
                        Event(t, "try_broadcast", 0 - 1, <<data>>, "ret", 0 - 1, <<>>, FALSE, 0, FALSE))
            ELSE LET r == BroadcastAppend(1, channel_count, channels, heap, woken, data)
                 IN  /\ WithinData(r.heap)
                     /\ Return(t, r.heap, r.woken, global_error,
                               Event(t, "try_broadcast", 0 - 1, <<data>>, "ret", 0, <<>>, FALSE, 0, FALSE))

\* ---- coro_bus_send_v and coro_bus_try_send_v ----
\* the batch of count values 1, 2, ... (cyclically, within Values)
Batch(count) == [k \in 1..count |-> ((k - 1) % MaxVal) + 1]

\* a transfer that ignores the room and appends the whole batch
SendManyUnbounded(hp, w, a, data, space) ==
    [heap |-> [hp EXCEPT ![a].data = data_vector_append_many(@, data)],
     woken |-> wakeup_queue_wakeup_first(hp[a].send_queue,
                  wakeup_queue_wakeup_first(hp[a].recv_queue, w)),
     sent |-> Len(data)]

\* lines 458-479 with room: append to_send values, wake a receiver per
\* value and then one sender
SendMany(hp, w, a, data, space) ==
    LET to_send == UnsignedMin(Len(data), space)
        chan == hp[a]
        w1 == IF to_send > 0
              THEN wakeup_queue_wakeup_first(chan.recv_queue, w) ELSE w
    IN  [heap |-> [hp EXCEPT ![a].data =
                      data_vector_append_many(@, SubSeq(data, 1, to_send))],
         woken |-> wakeup_queue_wakeup_first(chan.send_queue, w1),
         sent |-> to_send]

\* the body of the for (;;) loop of coro_bus_send_v
SendVLoop(t, h, a, data, hp, resumed, st) ==
    IF channels[h + 1] # a
    THEN Return(t, hp, woken, CORO_BUS_ERR_NO_CHANNEL,
                Event(t, "send_v", h, data, "ret", 0 - 1, <<>>, resumed, st, FALSE))
    ELSE LET space == UnsignedSub(hp[a].size_limit, Len(hp[a].data))
         IN  IF UnsignedIsZero(space)
             THEN wakeup_queue_suspend_this(t, AddSendWaiter(hp, a, t), woken,
                      global_error, Parked("send_v", h, a, data, 0, 0),
                      Event(t, "send_v", h, data, "park", 0, <<>>, resumed, st, FALSE))
             ELSE LET r == SendMany(hp, woken, a, data, space)
                  IN  /\ WithinData(r.heap)
                      /\ Return(t, r.heap, r.woken, global_error,
                                Event(t, "send_v", h, data, "ret", r.sent, <<>>, resumed, st, FALSE))

SendV(t, h, data) ==
    /\ IsIdle(t)
    /\ IF ~ValidHandle(h)
       THEN Return(t, heap, woken, CORO_BUS_ERR_NO_CHANNEL,
                   Event(t, "send_v", h, data, "ret", 0 - 1, <<>>, FALSE, 0, FALSE))
       ELSE SendVLoop(t, h, channels[h + 1], data, heap, FALSE, 0)

ResumeSendV(t) ==
    /\ IsWoken(t, "send_v")
    /\ SendVLoop(t, task[t].channel, task[t].chan, task[t].data,
                 rlist_del_entry(heap, t), TRUE, stale[t])

TrySendV(t, h, data) ==
    /\ IsIdle(t)
    /\ IF ~ValidHandle(h)
       THEN Return(t, heap, woken, CORO_BUS_ERR_NO_CHANNEL,
                   Event(t, "try_send_v", h, data, "ret", 0 - 1, <<>>, FALSE, 0, FALSE))
       ELSE LET a == channels[h + 1]
                space == UnsignedSub(heap[a].size_limit, Len(heap[a].data))
            IN  IF UnsignedIsZero(space)
                THEN Return(t, heap, woken, CORO_BUS_ERR_WOULD_BLOCK,
                            Event(t, "try_send_v", h, data, "ret", 0 - 1, <<>>, FALSE, 0, FALSE))
                ELSE LET r == SendMany(heap, woken, a, data, space)
                     IN  /\ WithinData(r.heap)
                         /\ Return(t, r.heap, r.woken, global_error,
                                   Event(t, "try_send_v", h, data, "ret", r.sent, <<>>, FALSE, 0, FALSE))

\* ---- coro_bus_recv_v and coro_bus_try_recv_v ----
\* a batch receive that ignores the capacity of the caller's buffer
RecvManyAll(hp, w, a, capacity) ==
    [heap |-> [hp EXCEPT ![a].data = <<>>],
     woken |-> wakeup_queue_wakeup_first(hp[a].send_queue, w),
     vals |-> hp[a].data]

\* lines 561-567 on a non-empty channel
RecvMany(hp, w, a, capacity) ==
    LET chan == hp[a]
        recv_count == IF capacity < Len(chan.data) THEN capacity ELSE Len(chan.data)
        p == data_vector_pop_first_many(chan.data, recv_count)
    IN  [heap |-> [hp EXCEPT ![a].data = p.rest],
         woken |-> wakeup_queue_wakeup_first(chan.send_queue, w),
         vals |-> p.data]

TryRecvV(t, h, capacity) ==
    /\ IsIdle(t)
    /\ IF ~ValidHandle(h)
       THEN Return(t, heap, woken, CORO_BUS_ERR_NO_CHANNEL,
                   Event(t, "try_recv_v", h, <<capacity>>, "ret", 0 - 1, <<>>, FALSE, 0, FALSE))
       ELSE LET a == channels[h + 1]
            IN  IF Len(heap[a].data) = 0
                THEN Return(t, heap, woken, CORO_BUS_ERR_WOULD_BLOCK,
                            Event(t, "try_recv_v", h, <<capacity>>, "ret", 0 - 1, <<>>, FALSE, 0, FALSE))
                ELSE LET r == RecvMany(heap, woken, a, capacity)
                     IN  Return(t, r.heap, r.woken, global_error,
                                Event(t, "try_recv_v", h, <<capacity>>, "ret", Len(r.vals), r.vals, FALSE, 0, FALSE))

\* the while loop of coro_bus_recv_v around coro_bus_try_recv_v, and the
\* wake-up of the next receiver when messages are left (lines 537-539)
RecvVLoop(t, h, capacity, hp, resumed, st) ==
    IF ~ValidHandle(h)
    THEN Return(t, hp, woken, CORO_BUS_ERR_NO_CHANNEL,
                Event(t, "recv_v", h, <<capacity>>, "ret", 0 - 1, <<>>, resumed, st, FALSE))
    ELSE LET a == channels[h + 1]
         IN  IF Len(hp[a].data) = 0
             THEN wakeup_queue_suspend_this(t, AddRecvWaiter(hp, a, t), woken,
                      CORO_BUS_ERR_NONE, Parked("recv_v", h, a, <<>>, capacity, 0),
                      Event(t, "recv_v", h, <<capacity>>, "park", 0, <<>>, resumed, st, FALSE))
             ELSE LET r == RecvMany(hp, woken, a, capacity)
                      w2 == IF Len(r.heap[a].data) > 0
                            THEN wakeup_queue_wakeup_first(r.heap[a].recv_queue, r.woken)
                            ELSE r.woken
                  IN  Return(t, r.heap, w2, global_error,
                             Event(t, "recv_v", h, <<capacity>>, "ret", Len(r.vals), r.vals, resumed, st, FALSE))

RecvV(t, h, capacity) ==
    /\ IsIdle(t)
    /\ RecvVLoop(t, h, capacity, heap, FALSE, 0)

ResumeRecvV(t) ==
    /\ IsWoken(t, "recv_v")
    /\ RecvVLoop(t, task[t].channel, task[t].capacity,
                 rlist_del_entry(heap, t), TRUE, stale[t])

Next ==
    \/ \E t \in Tasks, c \in Caps : OpenMallocFails(t, c)
    \/ \E t \in Tasks, c \in Caps : OpenReallocFails(t, c)
    \/ \E t \in Tasks, c \in Caps : Open(t, c)
    \/ \E t \in Tasks, h \in Handles : Close(t, h)
    \/ \E t \in Tasks, h \in Handles, v \in Values : Send(t, h, v)
    \/ \E t \in Tasks : ResumeSend(t)
    \/ \E t \in Tasks, h \in Handles, v \in Values : TrySend(t, h, v)
    \/ \E t \in Tasks, h \in Handles : Recv(t, h)
    \/ \E t \in Tasks : ResumeRecv(t)
    \/ \E t \in Tasks, h \in Handles : TryRecv(t, h)
    \/ \E t \in Tasks, v \in Values : Broadcast(t, v)
    \/ \E t \in Tasks : ResumeBroadcast(t)
    \/ \E t \in Tasks, v \in Values : TryBroadcast(t, v)
    \/ \E t \in Tasks, h \in Handles, n \in Counts : SendV(t, h, Batch(n))
    \/ \E t \in Tasks : ResumeSendV(t)
    \/ \E t \in Tasks, h \in Handles, n \in Counts : TrySendV(t, h, Batch(n))
    \/ \E t \in Tasks, h \in Handles, n \in Counts : RecvV(t, h, n)
    \/ \E t \in Tasks : ResumeRecvV(t)
    \/ \E t \in Tasks, h \in Handles, n \in Counts : TryRecvV(t, h, n)
    \/ \E t \in Tasks, h \in Handles : RecvWild(t, "recv", h)
    \/ \E t \in Tasks, h \in Handles : RecvWild(t, "try_recv", h)
    \/ \E t \in Tasks, h \in Handles : RecvCrash(t, "recv", h)
    \/ \E t \in Tasks, h \in Handles : RecvCrash(t, "try_recv", h)

Spec == Init /\ [][Next]_vars

\* ======================= properties =======================

OpenChans == {channels[i] : i \in OpenSlots}

Waiters(chan) ==
    {chan.send_queue[k] : k \in 1..Len(chan.send_queue)}
        \cup {chan.recv_queue[k] : k \in 1..Len(chan.recv_queue)}

\* C1: every open channel holds at most as many pending messages as its
\* capacity, in every state in which control can pass between tasks.
CapacityInvariant ==
    \A a \in OpenChans : Len(heap[a].data) <= heap[a].size_limit

\* C2: FIFO delivery.  In every step each channel's queue either stays as
\* it is, or grows at its tail, or loses a prefix; the messages a step hands
\* to its caller are exactly the prefix removed from the head of the queue
\* of the channel it received from, in queue order.  So the messages handed
\* out by a channel are, in order, a prefix of the messages enqueued on it.
FifoDelivery ==
    [][/\ \A a \in Addrs :
            heap[a].used /\ heap'[a].used =>
                LET d == heap[a].data
                    e == heap'[a].data
                IN  \/ e = d
                    \/ Len(e) > Len(d) /\ SubSeq(e, 1, Len(d)) = d
                    \/ Len(e) < Len(d) /\ d = ev'.vals \o e
        /\ ev'.vals # <<>> =>
            /\ ValidHandle(ev'.h)
            /\ heap[channels[ev'.h + 1]].data
                  = ev'.vals \o heap'[channels[ev'.h + 1]].data
      ]_vars

\* a receive took the head of a queue whose next message has another value
FifoWitness ==
    /\ ev.op = "recv"
    /\ ev.kind = "ret"
    /\ ev.ret = 0
    /\ ValidHandle(ev.h)
    /\ heap[channels[ev.h + 1]].data # <<>>
    /\ heap[channels[ev.h + 1]].data[1] # ev.vals[1]

\* C3: close marks every task parked in send or recv on the channel
\* runnable, and when such a task next runs its call returns failure with
\* last error NoChannel.
CloseReleasesParked ==
    /\ \A t \in Tasks :
          stale[t] # 0 /\ task[t].pc \in {"send", "recv"} => woken[t]
    /\ ev.resumed /\ ev.stale # 0 /\ ev.op \in {"send", "recv"} =>
          /\ ev.kind = "ret"
          /\ ev.ret = 0 - 1
          /\ global_error = CORO_BUS_ERR_NO_CHANNEL

\* C4: the wait queues of the channel that occupies a slot never hold a
\* task whose handle-addressed call parked on an earlier channel of that
\* slot, so no operation on the new channel can mark such a task runnable.
NoCrossIncarnationWaiter ==
    \A i \in OpenSlots :
        \A t \in Waiters(heap[channels[i]]) :
            task[t].pc # "broadcast" => stale[t] # i

\* the receiver at the head of an open channel's recv-wait queue
IsFirstReceiver(u) ==
    \E a \in OpenChans :
        heap[a].recv_queue # <<>> /\ Head(heap[a].recv_queue) = u

\* a step leaves the wait queues of every channel as they are
SameQueues ==
    \A a \in Addrs :
        /\ heap'[a].send_queue = heap[a].send_queue
        /\ heap'[a].recv_queue = heap[a].recv_queue

\* C5: try_broadcast never parks; with an open channel that is full it
\* fails with WouldBlock and changes no channel and wakes nobody; otherwise
\* it appends the value once to the tail of every open channel and wakes
\* the first waiting receiver of each, and nobody else.
TryBroadcastAllOrNothing ==
    [][ev'.op = "try_broadcast" =>
        /\ ev'.kind = "ret"
        /\ SameQueues
        /\ IF \E a \in OpenChans : Len(heap[a].data) >= heap[a].size_limit
           THEN /\ ev'.ret = 0 - 1
                /\ global_error' = CORO_BUS_ERR_WOULD_BLOCK
                /\ heap' = heap
                /\ woken' = woken
           ELSE /\ OpenChans # {} => ev'.ret = 0
                /\ \A a \in OpenChans :
                      heap'[a].data = Append(heap[a].data, ev'.arg[1])
                /\ \A u \in Tasks :
                      woken'[u] <=> (woken[u] \/ IsFirstReceiver(u))
      ]_vars

\* try_broadcast failed with a full channel next to one that has room
TryBroadcastWitness ==
    /\ ev.op = "try_broadcast"
    /\ ev.ret = 0 - 1
    /\ global_error = CORO_BUS_ERR_WOULD_BLOCK
    /\ \E a \in OpenChans : Len(heap[a].data) >= heap[a].size_limit
    /\ \E a \in OpenChans : Len(heap[a].data) < heap[a].size_limit

\* C6: a step of a blocking broadcast either returns success having
\* appended the value to every open channel, or (it parks or fails) leaves
\* the contents of every channel as they were.
BroadcastNeverPartial ==
    [][ev'.op = "broadcast" =>
        IF ev'.kind = "ret" /\ ev'.ret = 0
        THEN \A a \in OpenChans :
                heap'[a].data = Append(heap[a].data, ev'.arg[1])
        ELSE \A a \in Addrs : heap'[a].data = heap[a].data
      ]_vars

\* a broadcast parked on the channel of the second slot while the channel
\* of the first slot had room for the value
BroadcastParkWitness ==
    /\ ev.op = "broadcast"
    /\ ev.kind = "park"
    /\ \E t \in Tasks : task[t].pc = "broadcast" /\ task[t].i = 2
    /\ 1 \in OpenSlots
    /\ Len(heap[channels[1]].data) < heap[channels[1]].size_limit

\* C7: on an open channel try_send fails with WouldBlock, changing neither
\* the queue nor the wait queues, when the pending count has reached the
\* capacity, and otherwise appends the value at the tail and succeeds.
TrySendExact ==
    [][ev'.op = "try_send" /\ ValidHandle(ev'.h) =>
        LET a == channels[ev'.h + 1]
        IN  /\ SameQueues
            /\ IF Len(heap[a].data) >= heap[a].size_limit
               THEN /\ ev'.ret = 0 - 1
                    /\ global_error' = CORO_BUS_ERR_WOULD_BLOCK
                    /\ heap' = heap
               ELSE /\ ev'.ret = 0
                    /\ heap'[a].data = Append(heap[a].data, ev'.arg[1])
                    /\ \A b \in Addrs \ {a} : heap'[b] = heap[b]
      ]_vars

\* try_send was refused on a channel holding exactly capacity messages
TrySendWitness ==
    /\ ev.op = "try_send"
    /\ ev.ret = 0 - 1
    /\ global_error = CORO_BUS_ERR_WOULD_BLOCK
    /\ ValidHandle(ev.h)
    /\ Len(heap[channels[ev.h + 1]].data) = heap[channels[ev.h + 1]].size_limit

\* C8: on an open channel try_recv fails with WouldBlock, changing neither
\* the queue nor the wait queues, when nothing is pending, and otherwise
\* removes and returns exactly the head message and wakes the first
\* waiting sender.
TryRecvExact ==
    [][ev'.op = "try_recv" /\ ValidHandle(ev'.h) =>
        LET a == channels[ev'.h + 1]
        IN  /\ SameQueues
            /\ IF heap[a].data = <<>>
               THEN /\ ev'.ret = 0 - 1
                    /\ global_error' = CORO_BUS_ERR_WOULD_BLOCK
                    /\ heap' = heap
                    /\ woken' = woken
               ELSE /\ ev'.ret = 0
                    /\ ev'.vals = <<Head(heap[a].data)>>
                    /\ heap'[a].data = Tail(heap[a].data)
                    /\ heap[a].send_queue # <<>> =>
                          woken'[Head(heap[a].send_queue)]
      ]_vars

\* try_recv took a message and thereby woke a parked sender
TryRecvWitness ==
    /\ ev.op = "try_recv"
    /\ ev.ret = 0
    /\ ValidHandle(ev.h)
    /\ heap[channels[ev.h + 1]].send_queue # <<>>
    /\ woken[Head(heap[channels[ev.h + 1]].send_queue)]

HandleOps == {"send", "try_send", "recv", "try_recv",
              "send_v", "try_send_v", "recv_v", "try_recv_v"}

\* C9: a call of a handle-taking operation with a handle that is negative,
\* not below the slot count, or names an empty slot fails with last error
\* NoChannel, does not park, reads no slot outside the slot array and
\* leaves every channel unchanged.
InvalidHandleNoChannel ==
    [][ev'.op \in HandleOps /\ ~ev'.resumed /\ ~ValidHandle(ev'.h) =>
        /\ ev'.kind = "ret"
        /\ ev'.ret = 0 - 1
        /\ global_error' = CORO_BUS_ERR_NO_CHANNEL
        /\ ~ev'.oob
        /\ heap' = heap
        /\ channels' = channels
      ]_vars

\* C10: in a step of an operation other than close, a task that becomes
\* runnable is in a wait queue in which every task parked before it has
\* been woken already: waiters are woken in the order they parked.
WakeInParkOrder ==
    [][ev'.op # "close" =>
        \A u \in Tasks :
            woken'[u] /\ ~woken[u] =>
                \E a \in Addrs :
                    \/ \E k \in 1..Len(heap[a].send_queue) :
                          /\ heap[a].send_queue[k] = u
                          /\ \A j \in 1..(k - 1) : woken[heap[a].send_queue[j]]
                    \/ \E k \in 1..Len(heap[a].recv_queue) :
                          /\ heap[a].recv_queue[k] = u
                          /\ \A j \in 1..(k - 1) : woken[heap[a].recv_queue[j]]
      ]_vars

\* two tasks parked in recv, the first was woken by a send and has just
\* received the message, the second is still parked and not woken
WakeOrderWitness ==
    /\ ev.op = "recv"
    /\ ev.resumed
    /\ ev.ret = 0
    /\ ev.kind = "ret"
    /\ \E t \in Tasks :
          /\ task[t].pc = "recv"
          /\ task[t].channel = ev.h
          /\ ~woken[t]

\* the smaller of two integers
Min(x, y) == IF x < y THEN x ELSE y

SendManyTransfersAll ==
    [][ev'.op = "send_v" /\ ev'.kind = "ret" /\ ev'.ret >= 0 =>
        ev'.ret = Len(ev'.arg)
      ]_vars

\* C12, amended: a blocking send_many of more values than the capacity,
\* running on the channel while it is empty, does not transfer everything.
\* It returns in that very pass with the capacity as its count, having
\* enqueued only the first capacity values in order, and the call is over:
\* no task is left parked on behalf of the values that did not fit.
SendManyReturnsAfterOnePass ==
    [][/\ ev'.op = "send_v"
       /\ ValidHandle(ev'.h)
       /\ heap[channels[ev'.h + 1]].data = <<>>
       /\ Len(ev'.arg) > heap[channels[ev'.h + 1]].size_limit
       =>
        LET a == channels[ev'.h + 1]
        IN  /\ ev'.kind = "ret"
            /\ ev'.ret = heap[a].size_limit
            /\ ev'.ret < Len(ev'.arg)
            /\ heap'[a].data = SubSeq(ev'.arg, 1, heap[a].size_limit)
            /\ \A u \in Tasks : task'[u].pc = "send_v" => task'[u] = task[u]
      ]_vars

\* a send_many of two values parked on a full capacity-1 channel, was woken
\* after the channel was drained, enqueued one value and returned 1
SendManyPartialWitness ==
    /\ ev.op = "send_v"
    /\ ev.kind = "ret"
    /\ ev.resumed
    /\ ev.ret = 1
    /\ Len(ev.arg) = 2
    /\ ValidHandle(ev.h)
    /\ heap[channels[ev.h + 1]].size_limit = 1
    /\ heap[channels[ev.h + 1]].data = <<ev.arg[1]>>

RecvManyExact ==
    [][ev'.op \in {"recv_v", "try_recv_v"} /\ ValidHandle(ev'.h) =>
        LET a == channels[ev'.h + 1]
            L == Len(heap[a].data)
        IN  IF L > 0
            THEN LET m == Min(L, ev'.arg[1])
                 IN  /\ ev'.kind = "ret"
                     /\ ev'.ret = m
                     /\ ev'.vals = SubSeq(heap[a].data, 1, m)
                     /\ heap'[a].data = SubSeq(heap[a].data, m + 1, L)
                     /\ \A b \in Addrs \ {a} : heap'[b].data = heap[b].data
            ELSE IF ev'.op = "try_recv_v"
                 THEN /\ ev'.kind = "ret"
                      /\ ev'.ret = 0 - 1
                      /\ global_error' = CORO_BUS_ERR_WOULD_BLOCK
                      /\ heap' = heap
                      /\ woken' = woken
                      /\ task' = task
                 ELSE /\ ev'.kind = "park"
                      /\ \A b \in Addrs : heap'[b].data = heap[b].data
                      /\ heap'[a].recv_queue # <<>>
                      /\ LET u == heap'[a].recv_queue[Len(heap'[a].recv_queue)]
                         IN  /\ task'[u].pc = "recv_v"
                             /\ task'[u].channel = ev'.h
                             /\ ~woken'[u]
      ]_vars

\* a recv_many with room for one value ran after being woken on a channel
\* holding two different values: it took the first and left the second
RecvManyWitness ==
    /\ ev.op = "recv_v"
    /\ ev.kind = "ret"
    /\ ev.resumed
    /\ ev.ret = 1
    /\ ev.arg = <<1>>
    /\ ValidHandle(ev.h)
    /\ Len(heap[channels[ev.h + 1]].data) = 1
    /\ heap[channels[ev.h + 1]].data[1] # ev.vals[1]

BlockingOps == {"send", "recv", "broadcast", "send_v", "recv_v"}

NonBlockingOps == {"try_send", "try_recv", "try_broadcast",
                   "try_send_v", "try_recv_v"}

\* C15: a blocking operation that returns failure never leaves WouldBlock
\* as the last error, and it parks only when its condition is unmet: no
\* room in the channel (in some open channel, for broadcast) on the send
\* side, no pending message on the receive side.  A non-blocking operation
\* never parks: its step suspends no task and touches no wait queue.
BlockingSeparation ==
    [][/\ ev'.op \in BlockingOps /\ ev'.kind = "ret" /\ ev'.ret < 0 =>
              global_error' # CORO_BUS_ERR_WOULD_BLOCK
       /\ ev'.op \in {"send", "send_v"} /\ ev'.kind = "park" =>
              /\ ValidHandle(ev'.h)
              /\ ~HasRoom(heap[channels[ev'.h + 1]])
       /\ ev'.op \in {"recv", "recv_v"} /\ ev'.kind = "park" =>
              /\ ValidHandle(ev'.h)
              /\ heap[channels[ev'.h + 1]].data = <<>>
       /\ ev'.op = "broadcast" /\ ev'.kind = "park" =>
              \E a \in OpenChans : ~HasRoom(heap[a])
       /\ ev'.op \in NonBlockingOps =>
              /\ ev'.kind # "park"
              /\ task' = task
              /\ SameQueues
      ]_vars

\* try_send was refused with WouldBlock on a channel on which a blocking
\* send is parked for the same lack of room
BlockingSeparationWitness ==
    /\ ev.op = "try_send"
    /\ ev.ret = 0 - 1
    /\ global_error = CORO_BUS_ERR_WOULD_BLOCK
    /\ ValidHandle(ev.h)
    /\ \E t \in Tasks :
          /\ task[t].pc = "send"
          /\ task[t].channel = ev.h
          /\ InSeq(t, heap[channels[ev.h + 1]].send_queue)

\* the Allocation error kind of the interface; no statement of the
\* program assigns it to global_error
AllocationError == "ALLOCATION"

\* C16: when open_channel fails (the channel object cannot be allocated or
\* the slot array cannot grow) the last error is Allocation after the call,
\* and the slot array and every existing channel are as before.
OpenReportsAllocation ==
    [][ev'.op = "open" /\ ev'.ret < 0 =>
        /\ global_error' = AllocationError
        /\ channels' = channels
        /\ heap' = heap
      ]_vars

\* the error kind of a failing step, from the state in which it ran
FailureKind(op, h) ==
    IF op = "open" THEN AllocationError
    ELSE IF op = "try_broadcast" /\ OpenSlots # {}
         THEN CORO_BUS_ERR_WOULD_BLOCK
    ELSE IF op \in NonBlockingOps /\ ValidHandle(h)
         THEN CORO_BUS_ERR_WOULD_BLOCK
    ELSE CORO_BUS_ERR_NO_CHANNEL

\* C17: whenever a call returns failure to its task, the last error is
\* the kind of that failure (Allocation for open, WouldBlock for a
\* non-blocking call that could not proceed on an open channel, NoChannel
\* otherwise), also when the caller had been parked in between.
LastErrorReflectsFailure ==
    [][ev'.kind = "ret" /\ ev'.ret < 0 =>
        global_error' = FailureKind(ev'.op, ev'.h)
      ]_vars

\* C18: when a task parked in send, recv, send_many or recv_many resumes
\* after the channel it parked on was closed, whether or not the slot has
\* been opened again since, its call returns failure with NoChannel in
\* that step and neither appends to nor removes from any channel.
RevalidatesInstance ==
    [][/\ ev'.resumed
       /\ ev'.stale # 0
       /\ ev'.op \in {"send", "recv", "send_v", "recv_v"}
       =>
        /\ ev'.kind = "ret"
        /\ ev'.ret = 0 - 1
        /\ global_error' = CORO_BUS_ERR_NO_CHANNEL
        /\ \A a \in Addrs : heap'[a].data = heap[a].data
      ]_vars

\* C19: a successful open_channel(capacity) returns the lowest free slot
\* of the slot array when there is one, leaving the length of the array as
\* it is, and otherwise appends one slot and returns its index.  The handle
\* returned was not that of an open channel; after the call it names a
\* channel with the requested capacity, no pending message and empty wait
\* queues, and every other slot and channel is as before.
OpenLowestFreeSlot ==
    [][ev'.op = "open" /\ ev'.ret >= 0 =>
        LET s == ev'.ret + 1
            free == {i \in 1..Len(channels) : channels[i] = 0}
        IN  /\ IF free # {}
               THEN /\ s \in free
                    /\ \A j \in free : s <= j
                    /\ Len(channels') = Len(channels)
               ELSE /\ s = Len(channels) + 1
                    /\ Len(channels') = Len(channels) + 1
            /\ s \notin OpenSlots
            /\ \A i \in 1..Len(channels) : i # s => channels'[i] = channels[i]
            /\ channels'[s] # 0
            /\ channels'[s] \notin OpenChans
            /\ heap'[channels'[s]].used
            /\ heap'[channels'[s]].size_limit = ev'.arg[1]
            /\ heap'[channels'[s]].data = <<>>
            /\ heap'[channels'[s]].send_queue = <<>>
            /\ heap'[channels'[s]].recv_queue = <<>>
            /\ \A a \in Addrs \ {channels'[s]} : heap'[a] = heap[a]
      ]_vars

\* open returned handle 0 on a bus of two slots that were both free
OpenLowestWitness ==
    /\ ev.op = "open"
    /\ ev.ret = 0
    /\ channel_count = 2
    /\ channels[1] # 0
    /\ channels[2] = 0

\* C20: close_channel on an open channel empties both of its wait queues,
\* discards its messages and frees its slot; the slot count, every other
\* slot and every other channel (capacity, messages, wait queues) stay as
\* they are, no task changes its position, and only the tasks that waited
\* on the closed channel become runnable.  close_channel with a handle that
\* is out of range or names an empty slot changes nothing.
CloseFrame ==
    [][ev'.op = "close" =>
        IF ValidHandle(ev'.h)
        THEN LET a == channels[ev'.h + 1]
             IN  /\ channels' = [channels EXCEPT ![ev'.h + 1] = 0]
                 /\ ~heap'[a].used
                 /\ heap'[a].data = <<>>
                 /\ heap'[a].send_queue = <<>>
                 /\ heap'[a].recv_queue = <<>>
                 /\ \A b \in Addrs \ {a} : heap'[b] = heap[b]
                 /\ task' = task
                 /\ \A u \in Tasks :
                       woken'[u] <=> (woken[u] \/ u \in Waiters(heap[a]))
        ELSE /\ channels' = channels
             /\ heap' = heap
             /\ task' = task
             /\ woken' = woken
             /\ global_error' = global_error
      ]_vars

\* a channel with a parked task was closed while the other channel of the
\* bus keeps its own parked receiver, who was not woken
CloseFrameWitness ==
    /\ ev.op = "close"
    /\ ev.h >= 0
    /\ ev.h < channel_count
    /\ channels[ev.h + 1] = 0
    /\ \E t \in Tasks : stale[t] = ev.h + 1 /\ woken[t]
    /\ \E a \in OpenChans :
          /\ heap[a].recv_queue # <<>>
          /\ ~woken[Head(heap[a].recv_queue)]

\* the task at the head of a wait queue, as a set
HeadOf(queue) == IF queue = <<>> THEN {} ELSE {Head(queue)}

\* C21: wake-ups of the single-value operations.  After the caller has
\* left the wait queue it may have been parked in, a successful send marks
\* runnable the oldest waiter of the channel's recv-wait queue and the
\* oldest of its send-wait queue, a successful try_send the oldest of the
\* recv-wait queue only, a successful recv or try_recv the oldest of the
\* send-wait queue only, and nobody else; a failing call marks nobody
\* runnable.
SingleValueWakeups ==
    [][ev'.op \in {"send", "try_send", "recv", "try_recv"} /\ ev'.kind = "ret" =>
        LET ch == IF ev'.ret = 0 THEN heap'[channels[ev'.h + 1]] ELSE FreeBlock
            rcv == IF ev'.op \in {"send", "try_send"}
                   THEN HeadOf(ch.recv_queue) ELSE {}
            snd == IF ev'.op \in {"send", "recv", "try_recv"}
                   THEN HeadOf(ch.send_queue) ELSE {}
        IN  \A u \in Tasks :
                IF task'[u] # task[u]
                THEN ~woken'[u]
                ELSE woken'[u] <=> (woken[u] \/ u \in rcv \/ u \in snd)
      ]_vars

\* a send succeeded on a channel with two parked receivers: the older one
\* is runnable, the younger one is not
SingleValueWakeupsWitness ==
    /\ ev.op = "send"
    /\ ev.kind = "ret"
    /\ ev.ret = 0
    /\ ValidHandle(ev.h)
    /\ Len(heap[channels[ev.h + 1]].recv_queue) = 2
    /\ woken[heap[channels[ev.h + 1]].recv_queue[1]]
    /\ ~woken[heap[channels[ev.h + 1]].recv_queue[2]]

\* the places (channel, queue, position) at which task t is linked
Links(t) ==
    UNION {{<<a, "send", k>> : k \in {j \in 1..Len(heap[a].send_queue) :
                                          heap[a].send_queue[j] = t}}
           \cup {<<a, "recv", k>> : k \in {j \in 1..Len(heap[a].recv_queue) :
                                               heap[a].recv_queue[j] = t}}
           : a \in Addrs}

\* C22: a task is linked in a wait queue only while it is parked inside a
\* blocking call that parked it in that queue of that channel (send-side
\* calls in the send-wait queue, receive-side calls in the recv-wait
\* queue); it is linked at most once in at most one queue; a task whose
\* call has returned is linked nowhere; no wait queue is longer than the
\* number of tasks.
QueueMembership ==
    /\ \A a \in Addrs :
          /\ Len(heap[a].send_queue) <= NumTasks
          /\ Len(heap[a].recv_queue) <= NumTasks
          /\ \A t \in Tasks :
                /\ InSeq(t, heap[a].send_queue) =>
                      /\ heap[a].used
                      /\ task[t].pc \in {"send", "send_v", "broadcast"}
                      /\ task[t].chan = a
                /\ InSeq(t, heap[a].recv_queue) =>
                      /\ heap[a].used
                      /\ task[t].pc \in {"recv", "recv_v"}
                      /\ task[t].chan = a
    /\ \A t \in Tasks :
          /\ Cardinality(Links(t)) <= 1
          /\ task[t].pc = "idle" => Links(t) = {}

\* a task parked in recv was released by the close of its channel and has
\* returned, while another task is still linked in a queue of the channel
\* that stays open
QueueMembershipWitness ==
    /\ ev.op = "recv"
    /\ ev.resumed
    /\ ev.kind = "ret"
    /\ ev.ret = 0 - 1
    /\ ev.stale # 0
    /\ \E t \in Tasks : Links(t) # {}
    /\ \E t \in Tasks : task[t].pc = "idle" /\ Links(t) = {}

\* C23: a broadcast or try_broadcast that runs while the bus has no open
\* channel returns failure with NoChannel, changes no slot and no channel
\* and wakes nobody, be it a fresh call or a broadcast resumed after every
\* channel was closed; one that runs while some channel is open does not
\* fail with NoChannel.
BroadcastNoTargets ==
    [][ev'.op \in {"broadcast", "try_broadcast"} =>
        IF OpenSlots = {}
        THEN /\ ev'.kind = "ret"
             /\ ev'.ret = 0 - 1
             /\ global_error' = CORO_BUS_ERR_NO_CHANNEL
             /\ heap' = heap
             /\ channels' = channels
             /\ \A u \in Tasks : woken'[u] => woken[u]
        ELSE ~(/\ ev'.kind = "ret"
               /\ ev'.ret < 0
               /\ global_error' = CORO_BUS_ERR_NO_CHANNEL)
      ]_vars

\* a broadcast that was parked has resumed after the last open channel
\* was closed and failed with NoChannel
BroadcastNoTargetsWitness ==
    /\ ev.op = "broadcast"
    /\ ev.resumed
    /\ ev.kind = "ret"
    /\ ev.ret = 0 - 1
    /\ global_error = CORO_BUS_ERR_NO_CHANNEL
    /\ OpenSlots = {}
    /\ channel_count > 0

\* C24: no lost wake-up for receivers.  On an open channel that holds a
\* pending message, every task parked in its recv-wait queue is runnable
\* or has a runnable task parked before it in that queue.
NoLostReceiverWakeup ==
    \A a \in OpenChans :
        heap[a].data # <<>> =>
            \A k \in 1..Len(heap[a].recv_queue) :
                \E j \in 1..k : woken[heap[a].recv_queue[j]]

\* C25: no lost wake-up for senders.  On an open channel whose pending
\* count is below its capacity, a task parked in send or send_many in the
\* send-wait queue is never left without a runnable task among the tasks
\* parked on that channel (a waiter of the send-wait queue, or a receiver
\* that will free room and wake the queue when it runs).
NoLostSenderWakeup ==
    \A a \in OpenChans :
        /\ HasRoom(heap[a])
        /\ \E k \in 1..Len(heap[a].send_queue) :
              task[heap[a].send_queue[k]].pc \in {"send", "send_v"}
        => \E u \in Waiters(heap[a]) : woken[u]

\* C26: whenever send_many or try_send_many computes the room of the
\* channel (every step of theirs that does not fail with NoChannel), the
\* pending count is at most the capacity, so the unsigned difference does
\* not wrap, and the step leaves at most capacity messages in the channel.
RoomNeverWraps ==
    [][/\ ev'.op \in {"send_v", "try_send_v"}
       /\ ~(/\ ev'.kind = "ret"
             /\ ev'.ret < 0
             /\ global_error' = CORO_BUS_ERR_NO_CHANNEL)
       =>
        LET a == channels[ev'.h + 1]
        IN  /\ Len(heap[a].data) <= heap[a].size_limit
            /\ UnsignedSub(heap[a].size_limit, Len(heap[a].data))[1] = 0
            /\ Len(heap'[a].data) <= heap[a].size_limit
      ]_vars

\* C27: no barging.  When a task parked in recv, recv_many, send or
\* send_many on a channel that stays open is woken, runs, finds its
\* condition unmet again and parks again, it keeps its place in the wait
\* queue: the tasks that parked after it are still behind it, so that none
\* of them is served before it.
WaiterKeepsPosition ==
    [][/\ ev'.op \in {"recv", "recv_v", "send", "send_v"}
       /\ ev'.resumed
       /\ ev'.stale = 0
       /\ ev'.kind = "park"
       =>
        /\ heap'[channels[ev'.h + 1]].recv_queue
              = heap[channels[ev'.h + 1]].recv_queue
        /\ heap'[channels[ev'.h + 1]].send_queue
              = heap[channels[ev'.h + 1]].send_queue
      ]_vars

====
